---------------------------- MODULE Spec2Model ----------------------------
(***************************************************************************)
(* Tip5 over the prime field with p = 2^64 - 2^32 + 1: the field element   *)
(* (src/b_field_element.rs), the sponge (src/sponge.rs) and the            *)
(* permutation with its hash functions (src/lib.rs).                       *)
(*                                                                         *)
(* A u64 is a little-endian sequence of 8 bytes (the layout of             *)
(* u64::to_le_bytes), a u128 one of 16 bytes: TLC's integers are 32 bits   *)
(* wide, and the code's arithmetic is 64 and 128 bits wide with wrapping,  *)
(* carries and borrows that the model keeps.  Rust indexes from 0, the     *)
(* sequences here from 1.                                                  *)
(***************************************************************************)
EXTENDS Integers, Sequences, FiniteSets, TLC

VARIABLES
    \* Field elements: the operands, how elements are made of them, the
    \* build, the last operation and what it returned.
    u, v, z,            \* three u64
    ctor,               \* "new" or "from_raw_u64"
    overflow_checks,    \* whether the build panics on integer overflow
    op,                 \* the operation applied to the operands
    out,                \* [panic |-> BOOLEAN, val |-> the u64 returned]
    \* The sponge.
    sponge,             \* the Tip5 instance: [state |-> 16 elements]
    sop,                \* the last function called
    arg,                \* its argument
    ret,                \* what it returned: [panic, val] as for out
    pre,                \* the instance as it was before the call
    absorbed,           \* the blocks the call handed to absorb, in order
    nops,               \* the calls made on the instance
    run                 \* the squeezes in a row: [first |-> the state at
                        \* the first of them, k |-> how many]

fvars == <<u, v, z, ctor, overflow_checks, op, out>>
svars == <<sponge, sop, arg, ret, pre, absorbed, nops, run>>
vars == <<fvars, svars>>

(***************************************************************************)
(* Machine words.                                                          *)
(***************************************************************************)

\* A literal 0xhhhh_hhhh_hhhh_hhhh, 16 bits at a time, as a u64.
U64(h3, h2, h1, h0) ==
    << h0 % 256, h0 \div 256, h1 % 256, h1 \div 256,
       h2 % 256, h2 \div 256, h3 % 256, h3 \div 256 >>

\* `n as u64` for a small n.
FromInt(n) ==
    << n % 256, (n \div 256) % 256, (n \div 65536) % 256, n \div 16777216,
       0, 0, 0, 0 >>

\* `x as u64` and `(x >> 64) as u64` of a u128, `word as u128` of a u64.
Lo64(x) == <<x[1], x[2], x[3], x[4], x[5], x[6], x[7], x[8]>>
Hi64(x) == <<x[9], x[10], x[11], x[12], x[13], x[14], x[15], x[16]>>
AsU128(word) ==
    <<word[1], word[2], word[3], word[4], word[5], word[6], word[7], word[8],
      0, 0, 0, 0, 0, 0, 0, 0>>

\* u64::overflowing_add: the wrapped sum and whether it overflowed.
overflowing_add(a, b) ==
    LET t1 == a[1] + b[1]
        t2 == a[2] + b[2] + (t1 \div 256)
        t3 == a[3] + b[3] + (t2 \div 256)
        t4 == a[4] + b[4] + (t3 \div 256)
        t5 == a[5] + b[5] + (t4 \div 256)
        t6 == a[6] + b[6] + (t5 \div 256)
        t7 == a[7] + b[7] + (t6 \div 256)
        t8 == a[8] + b[8] + (t7 \div 256)
    IN  [v |-> <<t1 % 256, t2 % 256, t3 % 256, t4 % 256, t5 % 256, t6 % 256, t7 % 256, t8 % 256>>,
         c |-> t8 \div 256 # 0]

\* u64::overflowing_sub: the wrapped difference and whether it borrowed.
overflowing_sub(a, b) ==
    LET t1 == a[1] - b[1]
        t2 == a[2] - b[2] + (t1 \div 256)
        t3 == a[3] - b[3] + (t2 \div 256)
        t4 == a[4] - b[4] + (t3 \div 256)
        t5 == a[5] - b[5] + (t4 \div 256)
        t6 == a[6] - b[6] + (t5 \div 256)
        t7 == a[7] - b[7] + (t6 \div 256)
        t8 == a[8] - b[8] + (t7 \div 256)
    IN  [v |-> <<t1 % 256, t2 % 256, t3 % 256, t4 % 256, t5 % 256, t6 % 256, t7 % 256, t8 % 256>>,
         c |-> t8 \div 256 # 0]

wrapping_add(a, b) == overflowing_add(a, b).v
wrapping_sub(a, b) == overflowing_sub(a, b).v

\* a << 32, a >> 32, !a on a u64.
Shl32(a) == <<0, 0, 0, 0, a[1], a[2], a[3], a[4]>>
Shr32(a) == <<a[5], a[6], a[7], a[8], 0, 0, 0, 0>>
Not64(a) ==
    <<255 - a[1], 255 - a[2], 255 - a[3], 255 - a[4],
      255 - a[5], 255 - a[6], 255 - a[7], 255 - a[8]>>

\* a << 4 and a >> 4 on a u64 (bits shifted out are lost).
Shl4(a) ==
    <<(a[1] % 16) * 16,
      (a[2] % 16) * 16 + (a[1] \div 16), (a[3] % 16) * 16 + (a[2] \div 16),
      (a[4] % 16) * 16 + (a[3] \div 16), (a[5] % 16) * 16 + (a[4] \div 16),
      (a[6] % 16) * 16 + (a[5] \div 16), (a[7] % 16) * 16 + (a[6] \div 16),
      (a[8] % 16) * 16 + (a[7] \div 16)>>

Shr4(a) ==
    <<(a[1] \div 16) + (a[2] % 16) * 16, (a[2] \div 16) + (a[3] % 16) * 16,
      (a[3] \div 16) + (a[4] % 16) * 16, (a[4] \div 16) + (a[5] % 16) * 16,
      (a[5] \div 16) + (a[6] % 16) * 16, (a[6] \div 16) + (a[7] % 16) * 16,
      (a[7] \div 16) + (a[8] % 16) * 16, a[8] \div 16>>

\* a << 28 on a u128: 3 bytes and 4 bits.
Shl28(a) ==
    <<0, 0, 0,
      (a[1] % 16) * 16,
      (a[2] % 16) * 16 + (a[1] \div 16), (a[3] % 16) * 16 + (a[2] \div 16),
      (a[4] % 16) * 16 + (a[3] \div 16), (a[5] % 16) * 16 + (a[4] \div 16),
      (a[6] % 16) * 16 + (a[5] \div 16), (a[7] % 16) * 16 + (a[6] \div 16),
      (a[8] % 16) * 16 + (a[7] \div 16), (a[9] % 16) * 16 + (a[8] \div 16),
      (a[10] % 16) * 16 + (a[9] \div 16), (a[11] % 16) * 16 + (a[10] \div 16),
      (a[12] % 16) * 16 + (a[11] \div 16), (a[13] % 16) * 16 + (a[12] \div 16)>>

\* a + b on u128, wrapping.
Add128(a, b) ==
    LET t1 == a[1] + b[1]
        t2 == a[2] + b[2] + (t1 \div 256)
        t3 == a[3] + b[3] + (t2 \div 256)
        t4 == a[4] + b[4] + (t3 \div 256)
        t5 == a[5] + b[5] + (t4 \div 256)
        t6 == a[6] + b[6] + (t5 \div 256)
        t7 == a[7] + b[7] + (t6 \div 256)
        t8 == a[8] + b[8] + (t7 \div 256)
        t9 == a[9] + b[9] + (t8 \div 256)
        t10 == a[10] + b[10] + (t9 \div 256)
        t11 == a[11] + b[11] + (t10 \div 256)
        t12 == a[12] + b[12] + (t11 \div 256)
        t13 == a[13] + b[13] + (t12 \div 256)
        t14 == a[14] + b[14] + (t13 \div 256)
        t15 == a[15] + b[15] + (t14 \div 256)
        t16 == a[16] + b[16] + (t15 \div 256)
    IN  <<t1 % 256, t2 % 256, t3 % 256, t4 % 256, t5 % 256, t6 % 256, t7 % 256, t8 % 256,
          t9 % 256, t10 % 256, t11 % 256, t12 % 256, t13 % 256, t14 % 256, t15 % 256, t16 % 256>>

\* a & 0xffffffff on a u64.
Low32(a) == <<a[1], a[2], a[3], a[4], 0, 0, 0, 0>>

\* `b as u64` of a bool.
BoolAsU64(c) == IF c THEN FromInt(1) ELSE FromInt(0)

\* (a as u128) * (b as u128): the full 128-bit product of two u64, by
\* columns with the carry handed on.
WideMul(a, b) ==
    LET t1 == a[1] * b[1]
        t2 == a[1] * b[2] + a[2] * b[1] + (t1 \div 256)
        t3 == a[1] * b[3] + a[2] * b[2] + a[3] * b[1] + (t2 \div 256)
        t4 == a[1] * b[4] + a[2] * b[3] + a[3] * b[2] + a[4] * b[1] + (t3 \div 256)
        t5 == a[1] * b[5] + a[2] * b[4] + a[3] * b[3] + a[4] * b[2] + a[5] * b[1] + (t4 \div 256)
        t6 == a[1] * b[6] + a[2] * b[5] + a[3] * b[4] + a[4] * b[3] + a[5] * b[2] + a[6] * b[1] + (t5 \div 256)
        t7 == a[1] * b[7] + a[2] * b[6] + a[3] * b[5] + a[4] * b[4] + a[5] * b[3] + a[6] * b[2] + a[7] * b[1] + (t6 \div 256)
        t8 == a[1] * b[8] + a[2] * b[7] + a[3] * b[6] + a[4] * b[5] + a[5] * b[4] + a[6] * b[3] + a[7] * b[2] + a[8] * b[1] + (t7 \div 256)
        t9 == a[2] * b[8] + a[3] * b[7] + a[4] * b[6] + a[5] * b[5] + a[6] * b[4] + a[7] * b[3] + a[8] * b[2] + (t8 \div 256)
        t10 == a[3] * b[8] + a[4] * b[7] + a[5] * b[6] + a[6] * b[5] + a[7] * b[4] + a[8] * b[3] + (t9 \div 256)
        t11 == a[4] * b[8] + a[5] * b[7] + a[6] * b[6] + a[7] * b[5] + a[8] * b[4] + (t10 \div 256)
        t12 == a[5] * b[8] + a[6] * b[7] + a[7] * b[6] + a[8] * b[5] + (t11 \div 256)
        t13 == a[6] * b[8] + a[7] * b[7] + a[8] * b[6] + (t12 \div 256)
        t14 == a[7] * b[8] + a[8] * b[7] + (t13 \div 256)
        t15 == a[8] * b[8] + (t14 \div 256)
        t16 == 0 + (t15 \div 256)
    IN  <<t1 % 256, t2 % 256, t3 % 256, t4 % 256, t5 % 256, t6 % 256, t7 % 256, t8 % 256, t9 % 256, t10 % 256, t11 % 256, t12 % 256, t13 % 256, t14 % 256, t15 % 256, t16 % 256>>

\* a * (c as u64) for a bool c: a or 0.
MulByBool(a, c) == IF c THEN a ELSE FromInt(0)

\* a * b on u64 where the code's product does not overflow.
Mul64(a, b) == Lo64(WideMul(a, b))

\* a < b on words of one length (compared from the most significant byte).
RECURSIVE LessFrom(_, _, _)
LessFrom(a, b, i) ==
    IF i = 0 THEN FALSE
    ELSE IF a[i] # b[i] THEN a[i] < b[i]
    ELSE LessFrom(a, b, i - 1)

Less(a, b) == LessFrom(a, b, Len(a))

(***************************************************************************)
(* BFieldElement: the stored word is the Montgomery representation.        *)
(***************************************************************************)

BYTES == 8

\* 0xffff_ffff_0000_0001
P == U64(65535, 65535, 0, 1)

\* 0xffff_fffe_0000_0001
R2 == U64(65535, 65534, 0, 1)

\* montyred without the final correction by 2^32 - 1 on a borrow.
montyred_uncorrected(x) ==
    LET xl == Lo64(x)
        xh == Hi64(x)
        Reduce(ae) ==
            LET a == ae.v
                e == ae.c
            IN  wrapping_sub(xh, wrapping_sub(wrapping_sub(a, Shr32(a)), BoolAsU64(e)))
    IN  Reduce(overflowing_add(xl, Shl32(xl)))

montyred(x) ==
    LET xl == Lo64(x)
        xh == Hi64(x)
        Correct(rc) ==
            LET r == rc.v
                c == rc.c
            IN  wrapping_sub(r, MulByBool(wrapping_add(FromInt(1), Not64(P)), c))
        Reduce(ae) ==
            LET a == ae.v
                e == ae.c
            IN  Correct(overflowing_sub(xh, wrapping_sub(wrapping_sub(a, Shr32(a)),
                                                         BoolAsU64(e))))
    IN  Reduce(overflowing_add(xl, Shl32(xl)))

\* new without the conversion into Montgomery representation.
new_unconverted(value) == montyred(AsU128(value))

new(value) == montyred(WideMul(value, R2))

canonical_representation(word) == montyred(AsU128(word))

value(word) == canonical_representation(word)

ZERO == new(FromInt(0))
ONE == new(FromInt(1))


\* A decimal literal of up to 27 digits, 9 digits at a time, as a u64.
Dec(d2, d1, d0) ==
    LET E9 == FromInt(1000000000)
    IN  wrapping_add(Mul64(wrapping_add(Mul64(FromInt(d2), E9), FromInt(d1)), E9),
                     FromInt(d0))

\* `Self::P - rhs.0` of impl Add is a plain subtraction: for rhs.0 > P it
\* overflows, which panics in a build with overflow checks and wraps in one
\* without.
AddPanics(rhs, checks) == checks /\ Less(P, rhs)

\* impl Add without the correction by p on a borrow.
Add_uncorrected(self, rhs) == wrapping_sub(self, wrapping_sub(P, rhs))

\* impl Add: a + b = a - (p - b), where it does not panic.
Add(self, rhs) ==
    LET Correct(x1c1) ==
            LET x1 == x1c1.v
                c1 == x1c1.c
            IN  IF c1 THEN wrapping_add(x1, P) ELSE x1
    IN  Correct(overflowing_sub(self, wrapping_sub(P, rhs)))

\* impl Sub
Sub(self, rhs) ==
    LET Correct(x1c1) ==
            LET x1 == x1c1.v
                c1 == x1c1.c
            IN  wrapping_sub(x1, MulByBool(wrapping_add(FromInt(1), Not64(P)), c1))
    IN  Correct(overflowing_sub(self, rhs))

\* impl Mul
Mul(self, rhs) == montyred(WideMul(self, rhs))

\* impl Neg
Neg(self) == Sub(ZERO, self)

square(self) == Mul(self, self)

\* exp with one squaring less.
RECURSIVE exp_short(_, _)
exp_short(base, exponent) ==
    IF Len(base) = BYTES /\ exponent > 1
    THEN exp_short(montyred(WideMul(base, base)), exponent - 1)
    ELSE base

\* The local fn exp of inverse: `exponent` squarings of base.  (Each pass
\* looks at the length of the word it was handed, so that the word is
\* evaluated before the pass and not inside it.)
RECURSIVE exp(_, _)
exp(base, exponent) ==
    IF Len(base) = BYTES /\ exponent > 0
    THEN exp(montyred(WideMul(base, base)), exponent - 1)
    ELSE base

\* assert_ne!(x, Self::zero(), ...): the derived PartialEq compares the
\* stored words.
InversePanics(self) == self = ZERO

\* inverse, where the assertion passes: the addition chain, each step
\* handing its results on to the next one.
inverse(self) ==
    LET x == self
        Last(bin_31_ones_1_zero, bin_32_ones) ==
            Mul(exp(bin_31_ones_1_zero, 32), bin_32_ones)
        From31(bin_31_ones) ==
            IF Len(bin_31_ones) = BYTES
            THEN Last(square(bin_31_ones), Mul(square(bin_31_ones), x))
            ELSE <<>>
        From30(bin_30_ones) ==
            IF Len(bin_30_ones) = BYTES
            THEN From31(Mul(square(bin_30_ones), x))
            ELSE <<>>
        From24(bin_24_ones, bin_6_ones) ==
            IF Len(bin_24_ones) = BYTES
            THEN From30(Mul(exp(bin_24_ones, 6), bin_6_ones))
            ELSE <<>>
        From12(bin_12_ones, bin_6_ones) ==
            IF Len(bin_12_ones) = BYTES
            THEN From24(Mul(exp(bin_12_ones, 12), bin_12_ones), bin_6_ones)
            ELSE <<>>
        From6(bin_6_ones) ==
            IF Len(bin_6_ones) = BYTES
            THEN From12(Mul(exp(bin_6_ones, 6), bin_6_ones), bin_6_ones)
            ELSE <<>>
        From3(bin_3_ones) ==
            IF Len(bin_3_ones) = BYTES
            THEN From6(Mul(exp(bin_3_ones, 3), bin_3_ones))
            ELSE <<>>
        From2(bin_2_ones) ==
            IF Len(bin_2_ones) = BYTES
            THEN From3(Mul(square(bin_2_ones), x))
            ELSE <<>>
    IN  From2(Mul(square(x), x))

\* The exponent the addition chain of inverse raises x to: a product adds
\* the exponents of its factors, a squaring doubles the exponent.
RECURSIVE exp_exponent(_, _)
exp_exponent(base, exponent) ==
    IF Len(base) = BYTES /\ exponent > 0
    THEN exp_exponent(wrapping_add(base, base), exponent - 1)
    ELSE base

inverse_exponent ==
    LET x == FromInt(1)
        Last(bin_31_ones_1_zero, bin_32_ones) ==
            wrapping_add(exp_exponent(bin_31_ones_1_zero, 32), bin_32_ones)
        From31(bin_31_ones) ==
            IF Len(bin_31_ones) = BYTES
            THEN Last(exp_exponent(bin_31_ones, 1),
                      wrapping_add(exp_exponent(bin_31_ones, 1), x))
            ELSE <<>>
        From30(bin_30_ones) ==
            IF Len(bin_30_ones) = BYTES
            THEN From31(wrapping_add(exp_exponent(bin_30_ones, 1), x))
            ELSE <<>>
        From24(bin_24_ones, bin_6_ones) ==
            IF Len(bin_24_ones) = BYTES
            THEN From30(wrapping_add(exp_exponent(bin_24_ones, 6), bin_6_ones))
            ELSE <<>>
        From12(bin_12_ones, bin_6_ones) ==
            IF Len(bin_12_ones) = BYTES
            THEN From24(wrapping_add(exp_exponent(bin_12_ones, 12), bin_12_ones),
                        bin_6_ones)
            ELSE <<>>
        From6(bin_6_ones) ==
            IF Len(bin_6_ones) = BYTES
            THEN From12(wrapping_add(exp_exponent(bin_6_ones, 6), bin_6_ones),
                        bin_6_ones)
            ELSE <<>>
        From3(bin_3_ones) ==
            IF Len(bin_3_ones) = BYTES
            THEN From6(wrapping_add(exp_exponent(bin_3_ones, 3), bin_3_ones))
            ELSE <<>>
        From2(bin_2_ones) ==
            IF Len(bin_2_ones) = BYTES
            THEN From3(wrapping_add(exp_exponent(bin_2_ones, 1), x))
            ELSE <<>>
    IN  From2(wrapping_add(exp_exponent(x, 1), x))

\* impl Div: other.inverse() * self
Div(self, other) == Mul(inverse(other), self)

\* The bytes of the stored word in little-endian order are the word as it
\* is kept here.
raw_bytes(word) == word
raw_u64(word) == word
from_raw_bytes(bytes) == bytes
from_raw_u64(e) == e

(***************************************************************************)
(* Tip5: state[i] of the code is state[i + 1] here.                        *)
(***************************************************************************)

\* An array given element by element, as the tuple of its elements.
Array(elements) == elements \o <<>>

STATE_SIZE == 16
NUM_SPLIT_AND_LOOKUP == 4
RATE == 10
NUM_ROUNDS == 7
LEN == 5

\* The table of the square map x -> (x + 1)^2 - 1 modulo 257 in place of the
\* table of the cube map.
LOOKUP_TABLE_square_map == Array([i \in 1..256 |-> ((i * i) + 256) % 257])

LOOKUP_TABLE ==
    <<
    0, 7, 26, 63, 124, 215, 85, 254, 214, 228, 45, 185, 140, 173, 33, 240, 29, 177, 176, 32, 8,
    110, 87, 202, 204, 99, 150, 106, 230, 14, 235, 128, 213, 239, 212, 138, 23, 130, 208, 6, 44,
    71, 93, 116, 146, 189, 251, 81, 199, 97, 38, 28, 73, 179, 95, 84, 152, 48, 35, 119, 49, 88,
    242, 3, 148, 169, 72, 120, 62, 161, 166, 83, 175, 191, 137, 19, 100, 129, 112, 55, 221, 102,
    218, 61, 151, 237, 68, 164, 17, 147, 46, 234, 203, 216, 22, 141, 65, 57, 123, 12, 244, 54, 219,
    231, 96, 77, 180, 154, 5, 253, 133, 165, 98, 195, 205, 134, 245, 30, 9, 188, 59, 142, 186, 197,
    181, 144, 92, 31, 224, 163, 111, 74, 58, 69, 113, 196, 67, 246, 225, 10, 121, 50, 60, 157, 90,
    122, 2, 250, 101, 75, 178, 159, 24, 36, 201, 11, 243, 132, 198, 190, 114, 233, 39, 52, 21, 209,
    108, 238, 91, 187, 18, 104, 194, 37, 153, 34, 200, 143, 126, 155, 236, 118, 64, 80, 172, 89,
    94, 193, 135, 183, 86, 107, 252, 13, 167, 206, 136, 220, 207, 103, 171, 160, 76, 182, 227, 217,
    158, 56, 174, 4, 66, 109, 139, 162, 184, 211, 249, 47, 125, 232, 117, 43, 16, 42, 127, 20, 241,
    25, 149, 105, 156, 51, 53, 168, 145, 247, 223, 79, 78, 226, 15, 222, 82, 115, 70, 210, 27, 41,
    1, 170, 40, 131, 192, 229, 248, 255
    >>

ROUND_CONSTANTS ==
    LET literals ==
        <<
        \* 1st round constants
        <<1, 332676891, 236936200>>,
        <<16, 607633045, 354064669>>,
        <<12, 746538998, 793080786>>,
        <<15, 240351333, 789289931>>,
        <<10, 333439796, 058208418>>,
        <<0, 986873372, 968378050>>,
        <<0, 153505017, 314310505>>,
        <<0, 703086547, 770691416>>,
        <<8, 522628845, 961587962>>,
        <<1, 727254290, 898686320>>,
        <<0, 199492491, 401196126>>,
        <<2, 969174933, 639985366>>,
        <<1, 607536590, 362293391>>,
        <<16, 971515075, 282501568>>,
        <<15, 401316942, 841283351>>,
        <<14, 178982151, 025681389>>,
        \* 2nd round constants
        <<2, 916963588, 744282587>>,
        <<5, 474267501, 391258599>>,
        <<5, 350367839, 445462659>>,
        <<7, 436373192, 934779388>>,
        <<12, 563531800, 071493891>>,
        <<12, 265318129, 758141428>>,
        <<6, 524649031, 155262053>>,
        <<1, 388069597, 090660214>>,
        <<3, 049665785, 814990091>>,
        <<5, 225141380, 721656276>>,
        <<10, 399487208, 361035835>>,
        <<6, 576713996, 114457203>>,
        <<12, 913805829, 885867278>>,
        <<10, 299910245, 954679423>>,
        <<12, 980779960, 345402499>>,
        <<0, 593670858, 850716490>>,
        \* 3rd round constants
        <<12, 184128243, 723146967>>,
        <<1, 315341360, 419235257>>,
        <<9, 107195871, 057030023>>,
        <<4, 354141752, 578294067>>,
        <<8, 824457881, 527486794>>,
        <<14, 811586928, 506712910>>,
        <<7, 768837314, 956434138>>,
        <<2, 807636171, 572954860>>,
        <<9, 487703495, 117094125>>,
        <<13, 452575580, 428891895>>,
        <<14, 689488045, 617615844>>,
        <<16, 144091782, 672017853>>,
        <<15, 471922440, 568867245>>,
        <<17, 295382518, 415944107>>,
        <<15, 054306047, 726632486>>,
        <<5, 708955503, 115886019>>,
        \* 4th round constants
        <<9, 596017237, 020520842>>,
        <<16, 520851172, 964236909>>,
        <<8, 513472793, 890943175>>,
        <<8, 503326067, 026609602>>,
        <<9, 402483918, 549940854>>,
        <<8, 614816312, 698982446>>,
        <<7, 744830563, 717871780>>,
        <<14, 419404818, 700162041>>,
        <<8, 090742384, 565069824>>,
        <<15, 547662568, 163517559>>,
        <<17, 314710073, 626307254>>,
        <<10, 008393716, 631058961>>,
        <<14, 480243402, 290327574>>,
        <<13, 569194973, 291808551>>,
        <<10, 573516815, 088946209>>,
        <<15, 120483436, 559336219>>,
        \* 5th round constants
        <<3, 515151310, 595301563>>,
        <<1, 095382462, 248757907>>,
        <<5, 323307938, 514209350>>,
        <<14, 204542692, 543834582>>,
        <<12, 448773944, 668684656>>,
        <<13, 967843398, 310696452>>,
        <<14, 838288394, 107326806>>,
        <<13, 718313940, 616442191>>,
        <<15, 032565440, 414177483>>,
        <<13, 769903572, 116157488>>,
        <<17, 074377440, 395071208>>,
        <<16, 931086385, 239297738>>,
        <<8, 723550055, 169003617>>,
        <<0, 590842605, 971518043>>,
        <<16, 642348030, 861036090>>,
        <<10, 708719298, 241282592>>,
        \* 6th round constants
        <<12, 766914315, 707517909>>,
        <<11, 780889552, 403245587>>,
        <<0, 113183285, 481780712>>,
        <<9, 019899125, 655375514>>,
        <<3, 300264967, 390964820>>,
        <<12, 802381622, 653377935>>,
        <<0, 891063765, 000023873>>,
        <<15, 939045541, 699412539>>,
        <<3, 240223189, 948727743>>,
        <<4, 087221142, 360949772>>,
        <<10, 980466041, 788253952>>,
        <<18, 199914337, 033135244>>,
        <<7, 168108392, 363190150>>,
        <<16, 860278046, 098150740>>,
        <<13, 088202265, 571714855>>,
        <<4, 712275036, 097525581>>,
        \* 7th round constants
        <<16, 338034078, 141228133>>,
        <<1, 455012125, 527134274>>,
        <<5, 024057780, 895012002>>,
        <<9, 289161311, 673217186>>,
        <<9, 401110072, 402537104>>,
        <<11, 919498251, 456187748>>,
        <<4, 173156070, 774045271>>,
        <<15, 647643457, 869530627>>,
        <<15, 642078237, 964257476>>,
        <<1, 405048341, 078324037>>,
        <<3, 059193199, 283698832>>,
        <<1, 605012781, 983592984>>,
        <<7, 134876918, 849821827>>,
        <<5, 796994175, 286958720>>,
        <<7, 251651436, 095127661>>,
        <<4, 565856221, 886323991>>
        >>
    IN  Array([i \in 1..Len(literals) |->
                  new(Dec(literals[i][1], literals[i][2], literals[i][3]))])

MDS_MATRIX_FIRST_COLUMN ==
    <<
    61402, 1108, 28750, 33823, 7454, 43244, 53865, 12034, 56951, 27521, 41351, 40901, 12021, 59689,
    26798, 17845
    >>

\* Tip5::new
\* Tip5::new with the two domains taken for each other.
Tip5New_swapped(domain) ==
    Array([i \in 1..STATE_SIZE |->
              IF domain = "VariableLength" /\ i > RATE THEN ONE ELSE ZERO])

\* Tip5::new
Tip5New(domain) ==
    Array([i \in 1..STATE_SIZE |->
              IF domain = "FixedLength" /\ i > RATE THEN ONE ELSE ZERO])

\* split_and_lookup with every looked-up byte complemented.
split_and_lookup_complemented(element) ==
    from_raw_bytes(Array([i \in 1..BYTES |->
                             255 - LOOKUP_TABLE[raw_bytes(element)[i] + 1]]))

split_and_lookup(element) ==
    from_raw_bytes(Array([i \in 1..BYTES |-> LOOKUP_TABLE[raw_bytes(element)[i] + 1]]))

\* Row r of the circulant matrix: M[r][c] = MDS_MATRIX_FIRST_COLUMN[(r - c) mod 16].
MdsRow(r) ==
    Array([c \in 1..STATE_SIZE |-> MDS_MATRIX_FIRST_COLUMN[((r - c) % STATE_SIZE) + 1]])

MDS_ROWS == Array([r \in 1..STATE_SIZE |-> MdsRow(r)])

\* The sum over c of m[c] * (byte k of xs[c]).
MdsDot(m, xs, k) ==
    m[1] * xs[1][k] + m[2] * xs[2][k] + m[3] * xs[3][k] + m[4] * xs[4][k] +
    m[5] * xs[5][k] + m[6] * xs[6][k] + m[7] * xs[7][k] + m[8] * xs[8][k] +
    m[9] * xs[9][k] + m[10] * xs[10][k] + m[11] * xs[11][k] + m[12] * xs[12][k] +
    m[13] * xs[13][k] + m[14] * xs[14][k] + m[15] * xs[15][k] + m[16] * xs[16][k]

\* The sum over c of m[c] * xs[c], for xs[c] < 2^32, as a u64: byte k
\* onwards, with the carry of the bytes below.
RECURSIVE MdsSumFrom(_, _, _, _)
MdsSumFrom(m, xs, k, t) ==
    IF k = BYTES
    THEN <<t>>
    ELSE <<t % 256>> \o MdsSumFrom(m, xs, k + 1,
                                   (IF k < 4 THEN MdsDot(m, xs, k + 1) ELSE 0) + (t \div 256))

MdsSum(m, xs) == MdsSumFrom(m, xs, 1, MdsDot(m, xs, 1))

\* mds::generated_function on 32-bit inputs: 16 times the product of the
\* circulant matrix with the input, over the integers (mds_generated
\* shifts the factor 16 out again).
generated_function(xs) ==
    Array([r \in 1..STATE_SIZE |-> Shl4(MdsSum(MDS_ROWS[r], xs))])

mds_generated(state) ==
    LET Reduce(ro) ==
            LET res  == ro.v
                over == ro.c
            IN  from_raw_u64(IF over
                             THEN wrapping_add(res, U64(0, 0, 65535, 65535))
                             ELSE res)
        Fold(s) ==
            LET s_hi == Hi64(s)
                s_lo == Lo64(s)
            IN  Reduce(overflowing_add(s_lo, Mul64(s_hi, U64(0, 0, 65535, 65535))))
        Combine(lo, hi) ==
            Array([r \in 1..STATE_SIZE |->
                      Fold(Add128(AsU128(Shr4(lo[r])), Shl28(AsU128(hi[r]))))])
    IN  Combine(generated_function(Array([i \in 1..STATE_SIZE |->
                                             Low32(raw_u64(state[i]))])),
                generated_function(Array([i \in 1..STATE_SIZE |->
                                             Shr32(raw_u64(state[i]))])))

sbox_layer(state) ==
    LET Times(x, sq, qu) == Mul(x, Mul(sq, qu))
        Power(x, sq)     == Times(x, sq, Mul(sq, sq))
    IN  Array([i \in 1..STATE_SIZE |->
                  IF i <= NUM_SPLIT_AND_LOOKUP
                  THEN split_and_lookup(state[i])
                  ELSE Power(state[i], Mul(state[i], state[i]))])

\* round_index counts from 0, as in the code.
round(state, round_index) ==
    LET AddConstants(s) ==
            Array([i \in 1..STATE_SIZE |->
                      Add(s[i], ROUND_CONSTANTS[round_index * STATE_SIZE + i])])
    IN  AddConstants(mds_generated(sbox_layer(state)))

\* for i in 0..NUM_ROUNDS { self.round(i) }, from pass i on.  (Each pass
\* looks at the length of the array it was handed, so that the array is
\* evaluated before the pass and not inside it.)
RECURSIVE RoundsFrom(_, _)
RoundsFrom(state, i) ==
    IF Len(state) = STATE_SIZE /\ i < NUM_ROUNDS
    THEN RoundsFrom(round(state, i), i + 1)
    ELSE state

permutation(state) == RoundsFrom(state, 0)

\* The loop of trace from pass i on: the round is applied and the state
\* after it is stored in trace[1 + i].
RECURSIVE TraceFrom(_, _, _)
TraceFrom(state, snapshots, i) ==
    LET Record(next) ==
            TraceFrom(next, [snapshots EXCEPT ![1 + i + 1] = next], i + 1)
    IN  IF Len(state) = STATE_SIZE /\ i < NUM_ROUNDS
        THEN Record(round(state, i))
        ELSE [state |-> state, ret |-> snapshots]

\* let mut trace = [[BFieldElement::ZERO; STATE_SIZE]; 1 + NUM_ROUNDS]
ZeroTrace ==
    Array([k \in 1..(1 + NUM_ROUNDS) |-> Array([j \in 1..STATE_SIZE |-> ZERO])])

\* trace that works on a copy and leaves the sponge as it was.
trace_on_copy(state) ==
    [state |-> state, ret |-> TraceFrom(state, [ZeroTrace EXCEPT ![1] = state], 0).ret]

\* Tip5::trace: the state after the call and the array returned
trace(state) == TraceFrom(state, [ZeroTrace EXCEPT ![1] = state], 0)

\* Digest is a tuple struct of one field, the array of its elements.
DigestNew(elements) == <<elements>>
values(digest) == digest[1]

\* state[..n].copy_from_slice(slice), and the zip of absorb: the first
\* Len(slice) elements are overwritten, the others are kept.
CopyFromSlice(state, slice) ==
    Array([i \in 1..STATE_SIZE |-> IF i <= Len(slice) THEN slice[i] ELSE state[i]])

\* hash_10, hash_pair and hash_varlen work on a sponge of their own: what
\* they return is kept with that sponge as it was made (made), as it is in
\* the end (state) and, for hash_varlen, the blocks absorbed.

hash_10(input) ==
    LET Squeezed(made, final) ==
            [made |-> made, state |-> final, absorbed |-> <<>>,
             ret |-> SubSeq(final, 1, LEN)]
        Absorbed(made) == Squeezed(made, permutation(CopyFromSlice(made, input)))
    IN  Absorbed(Tip5New("FixedLength"))

\* hash_pair with the right digest copied before the left one.
hash_pair_swapped(left, right) ==
    LET Squeezed(made, final) ==
            [made |-> made, state |-> final, absorbed |-> <<>>,
             ret |-> DigestNew(SubSeq(final, 1, LEN))]
        Absorbed(made) ==
            Squeezed(made, permutation(CopyFromSlice(made, values(right) \o values(left))))
    IN  Absorbed(Tip5New("FixedLength"))

hash_pair(left, right) ==
    LET Squeezed(made, final) ==
            [made |-> made, state |-> final, absorbed |-> <<>>,
             ret |-> DigestNew(SubSeq(final, 1, LEN))]
        Absorbed(made) ==
            Squeezed(made, permutation(CopyFromSlice(made, values(left) \o values(right))))
    IN  Absorbed(Tip5New("FixedLength"))

\* <Tip5 as Sponge>::init
init == Tip5New("VariableLength")

\* absorb that leaves the permutation out.
absorb_unpermuted(state, input) == CopyFromSlice(state, input)

\* <Tip5 as Sponge>::absorb: the state after the call
absorb(state, input) == permutation(CopyFromSlice(state, input))

\* squeeze that permutes before it reads.
squeeze_permute_first(state) ==
    LET Read(final) == [state |-> final, ret |-> SubSeq(final, 1, RATE)]
    IN  Read(permutation(state))

\* <Tip5 as Sponge>::squeeze: the state after the call and the block returned
squeeze(state) ==
    LET produce == SubSeq(state, 1, RATE)
    IN  [state |-> permutation(state), ret |-> produce]

\* The next multiple of m strictly above n.
next_multiple_above(n, m) == n + (m - (n % m))

\* usize::next_multiple_of
next_multiple_of(n, m) == IF n % m = 0 THEN n ELSE n + (m - (n % m))

Min(m, n) == IF m <= n THEN m ELSE n

\* The loop of pad_and_absorb_all from chunk i on: each chunk is turned into
\* an array of RATE elements (try_into().unwrap() panics on another length)
\* and absorbed.
RECURSIVE AbsorbChunks(_, _, _, _)
AbsorbChunks(state, padded_input, i, done) ==
    LET Chunk(chunk) ==
            IF Len(chunk) # RATE
            THEN [state |-> state, absorbed |-> done, panic |-> TRUE]
            ELSE AbsorbChunks(absorb(state, chunk), padded_input, i + 1,
                              Append(done, chunk))
    IN  IF Len(state) = STATE_SIZE /\ (i - 1) * RATE < Len(padded_input)
        THEN Chunk(SubSeq(padded_input, (i - 1) * RATE + 1,
                          Min(i * RATE, Len(padded_input))))
        ELSE [state |-> state, absorbed |-> done, panic |-> FALSE]

\* Sponge::pad_and_absorb_all: the state after the call and the blocks
\* handed to absorb
pad_and_absorb_all(state, input) ==
    LET padded_length == next_multiple_of(Len(input) + 1, RATE)
        padded_input  ==
            Array([i \in 1..padded_length |->
                      IF i <= Len(input) THEN input[i]
                      ELSE IF i = Len(input) + 1 THEN ONE
                      ELSE ZERO])
    IN  AbsorbChunks(state, padded_input, 1, <<>>)

hash_varlen(input) ==
    LET Produce(made, done) ==
            [made |-> made, state |-> done.state, absorbed |-> done.absorbed,
             panic |-> done.panic,
             ret |-> DigestNew(SubSeq(done.state, 1, LEN))]
        Absorbed(made) == Produce(made, pad_and_absorb_all(made, input))
    IN  Absorbed(init)


(***************************************************************************)
(* The field element, one call at a time: the operands are three u64, the  *)
(* elements are made of them by new or by from_raw_u64, and one operation  *)
(* of BFieldElement is applied.                                            *)
(***************************************************************************)

MaxSmall == 2

\* 0xffff_ffff_0000_0000
MAX == wrapping_sub(P, FromInt(1))

FieldWords ==
    { FromInt(n) : n \in 0..MaxSmall }
    \cup { FromInt(7),
           U64(0, 0, 65535, 65535),
           U64(291, 17767, 35243, 52719),
           MAX,
           P,
           U64(65535, 65535, 65535, 65535) }

ThirdOperands == { FromInt(3), MAX }

Constructors == { "new", "from_raw_u64" }

Elem(word) == IF ctor = "new" THEN new(word) ELSE from_raw_u64(word)

NoValue == <<>>
NoSponge == [state |-> <<>>]
NoRun == [first |-> <<>>, k |-> 0]

Returned(word) == [panic |-> FALSE, val |-> word]
Panicked == [panic |-> TRUE, val |-> NoValue]

IdleSponge ==
    /\ sponge = NoSponge
    /\ sop = "none"
    /\ arg = NoValue
    /\ ret = Returned(NoValue)
    /\ pre = NoSponge
    /\ absorbed = <<>>
    /\ nops = 0
    /\ run = NoRun

InitField ==
    /\ u \in FieldWords
    /\ v \in FieldWords
    /\ z \in ThirdOperands
    /\ ctor \in Constructors
    /\ overflow_checks \in BOOLEAN
    /\ op = "none"
    /\ out = Returned(NoValue)
    /\ IdleSponge

Applies(name, result) ==
    /\ op = "none"
    /\ op' = name
    /\ out' = result
    /\ UNCHANGED <<u, v, z, ctor, overflow_checks, svars>>

\* montyred(x) with x = v * 2^64 + u
Montyred == Applies("montyred", Returned(montyred(u \o v)))

\* BFieldElement::new(u)
New == Applies("new", Returned(new(u)))

\* e.value() of the element made of u
Value == Applies("value", Returned(value(Elem(u))))

\* a + b
AddOp ==
    Applies("add", IF AddPanics(Elem(v), overflow_checks)
                   THEN Panicked
                   ELSE Returned(Add(Elem(u), Elem(v))))

\* a - b
SubOp == Applies("sub", Returned(Sub(Elem(u), Elem(v))))

\* a * b
MulOp == Applies("mul", Returned(Mul(Elem(u), Elem(v))))

\* -a
NegOp == Applies("neg", Returned(Neg(Elem(u))))

\* a.inverse()
InverseOp ==
    Applies("inverse", IF InversePanics(Elem(u))
                       THEN Panicked
                       ELSE Returned(inverse(Elem(u))))

\* a / b
DivOp ==
    Applies("div", IF InversePanics(Elem(v))
                   THEN Panicked
                   ELSE Returned(Div(Elem(u), Elem(v))))

NextField ==
    \/ Montyred
    \/ New
    \/ Value
    \/ AddOp
    \/ SubOp
    \/ MulOp
    \/ NegOp
    \/ InverseOp
    \/ DivOp

SpecField == InitField /\ [][NextField]_vars

(***************************************************************************)
(* The S-box, one call at a time: split_and_lookup on the element made of  *)
(* u, and sbox_layer on a state whose elements are all that element.       *)
(***************************************************************************)

\* 16-bit limbs whose bytes are the ends of the byte range.
SboxLimbs == { 0, 255, 65535 }

SboxWords ==
    { U64(h3, h2, h1, h0) : h3 \in SboxLimbs, h2 \in SboxLimbs,
                            h1 \in SboxLimbs, h0 \in SboxLimbs }
    \cup FieldWords

InitSbox ==
    /\ u \in SboxWords
    /\ v = FromInt(0)
    /\ z = FromInt(0)
    /\ ctor \in Constructors
    /\ overflow_checks = FALSE
    /\ op = "none"
    /\ out = Returned(NoValue)
    /\ IdleSponge

\* Tip5::split_and_lookup(&mut e)
SplitAndLookup == Applies("split_and_lookup", Returned(split_and_lookup(Elem(u))))

\* sbox_layer of a sponge whose state holds the element in every place
SboxLayer ==
    Applies("sbox_layer", Returned(sbox_layer(Array([i \in 1..STATE_SIZE |-> Elem(u)]))))

NextSbox ==
    \/ SplitAndLookup
    \/ SboxLayer

SpecSbox == InitSbox /\ [][NextSbox]_vars

(***************************************************************************)
(* Reference arithmetic modulo p: the remainder of a 128-bit integer by    *)
(* long division, one bit at a time, on 9 bytes (the running remainder     *)
(* doubled stays below 2^65).                                              *)
(***************************************************************************)

RefP == P \o <<0>>

\* 2 * r + bit
RefDouble(r, bit) ==
    LET t1 == 2 * r[1] + bit
        t2 == 2 * r[2] + (t1 \div 256)
        t3 == 2 * r[3] + (t2 \div 256)
        t4 == 2 * r[4] + (t3 \div 256)
        t5 == 2 * r[5] + (t4 \div 256)
        t6 == 2 * r[6] + (t5 \div 256)
        t7 == 2 * r[7] + (t6 \div 256)
        t8 == 2 * r[8] + (t7 \div 256)
        t9 == 2 * r[9] + (t8 \div 256)
    IN  <<t1 % 256, t2 % 256, t3 % 256, t4 % 256, t5 % 256, t6 % 256,
          t7 % 256, t8 % 256, t9 % 256>>

\* r - p, for r >= p
RefLessP(r) ==
    LET t1 == r[1] - RefP[1]
        t2 == r[2] - RefP[2] + (t1 \div 256)
        t3 == r[3] - RefP[3] + (t2 \div 256)
        t4 == r[4] - RefP[4] + (t3 \div 256)
        t5 == r[5] - RefP[5] + (t4 \div 256)
        t6 == r[6] - RefP[6] + (t5 \div 256)
        t7 == r[7] - RefP[7] + (t6 \div 256)
        t8 == r[8] - RefP[8] + (t7 \div 256)
        t9 == r[9] - RefP[9] + (t8 \div 256)
    IN  <<t1 % 256, t2 % 256, t3 % 256, t4 % 256, t5 % 256, t6 % 256,
          t7 % 256, t8 % 256, t9 % 256>>

\* One step of the division: (2 * r + bit) mod p, for r < p
RefStep(r, bit) ==
    LET d == RefDouble(r, bit)
    IN  IF Less(d, RefP) THEN d ELSE RefLessP(d)

\* The eight steps for one byte of the dividend, from its top bit down.
RefByte(r, byte) ==
    LET s7 == RefStep(r, (byte \div 128) % 2)
        s6 == RefStep(s7, (byte \div 64) % 2)
        s5 == RefStep(s6, (byte \div 32) % 2)
        s4 == RefStep(s5, (byte \div 16) % 2)
        s3 == RefStep(s4, (byte \div 8) % 2)
        s2 == RefStep(s3, (byte \div 4) % 2)
        s1 == RefStep(s2, (byte \div 2) % 2)
        s0 == RefStep(s1, byte % 2)
    IN  IF /\ Len(s7) = 9 /\ Len(s6) = 9 /\ Len(s5) = 9 /\ Len(s4) = 9
           /\ Len(s3) = 9 /\ Len(s2) = 9 /\ Len(s1) = 9
        THEN s0
        ELSE <<>>

RECURSIVE RefModFrom(_, _, _)
RefModFrom(x, i, r) ==
    IF i = 0
    THEN SubSeq(r, 1, 8)
    ELSE LET n == RefByte(r, x[i])
         IN  IF Len(n) = 9 THEN RefModFrom(x, i - 1, n) ELSE <<>>

\* x mod p for a u128 x
RefMod(x) == RefModFrom(x, 16, <<0, 0, 0, 0, 0, 0, 0, 0, 0>>)

\* y * 2^64 for a u64 y
TimesR(y) == <<0, 0, 0, 0, 0, 0, 0, 0>> \o y

\* (a + b) mod p, (a - b) mod p for b <= p, (a * b) mod p, (p - a) mod p
\* for a <= p
RefAdd(a, b) == RefMod(Add128(AsU128(a), AsU128(b)))
RefSub(a, b) == RefMod(Add128(AsU128(a), AsU128(wrapping_sub(P, b))))
RefMul(a, b) == RefMod(WideMul(a, b))
RefNeg(a) == RefMod(AsU128(wrapping_sub(P, a)))

\* One step of square-and-multiply: acc^2 * base^bit
RefPowStep(acc, base, bit) ==
    LET sq == Mul(acc, acc)
    IN  IF bit = 1 THEN Mul(sq, base) ELSE sq

\* The eight steps for one byte of the exponent, from its top bit down.
RefPowByte(acc, base, byte) ==
    LET s7 == RefPowStep(acc, base, (byte \div 128) % 2)
        s6 == RefPowStep(s7, base, (byte \div 64) % 2)
        s5 == RefPowStep(s6, base, (byte \div 32) % 2)
        s4 == RefPowStep(s5, base, (byte \div 16) % 2)
        s3 == RefPowStep(s4, base, (byte \div 8) % 2)
        s2 == RefPowStep(s3, base, (byte \div 4) % 2)
        s1 == RefPowStep(s2, base, (byte \div 2) % 2)
        s0 == RefPowStep(s1, base, byte % 2)
    IN  IF /\ Len(s7) = BYTES /\ Len(s6) = BYTES /\ Len(s5) = BYTES
           /\ Len(s4) = BYTES /\ Len(s3) = BYTES /\ Len(s2) = BYTES
           /\ Len(s1) = BYTES
        THEN s0
        ELSE <<>>

\* base^e for a u64 e, by squaring and multiplying from the top bit down
RECURSIVE RefPowFrom(_, _, _, _)
RefPowFrom(base, e, i, acc) ==
    IF i = 0
    THEN acc
    ELSE LET n == RefPowByte(acc, base, e[i])
         IN  IF Len(n) = BYTES THEN RefPowFrom(base, e, i - 1, n) ELSE <<>>

RefPow(base, e) == RefPowFrom(base, e, BYTES, ONE)

(***************************************************************************)
(* Properties of the field element, under SpecField.                       *)
(***************************************************************************)

Canonical(word) == Less(word, P)

\* C1: for every x = v * 2^64 + u below p * 2^64, montyred(x) is the
\* integer r in [0, p) with r * 2^64 congruent to x modulo p; and for every
\* stored word, also one not below p, value() is such an r for the word.
C1_MontyredReduces ==
    /\ (op = "montyred" /\ Less(v, P)) =>
           /\ Canonical(out.val)
           /\ RefMod(TimesR(out.val)) = RefMod(u \o v)
    /\ op = "value" =>
           /\ Canonical(out.val)
           /\ RefMod(TimesR(out.val)) = RefMod(AsU128(Elem(u)))

\* montyred has run on an x below p * 2^64 whose low word makes the first
\* addition overflow and whose high word makes the subtraction borrow.
C1_Witness ==
    /\ op = "montyred"
    /\ Less(v, P)
    /\ overflowing_add(u, Shl32(u)).c
    /\ out.val # montyred_uncorrected(u \o v)

\* C2: for u, v in [0, p) the stored words of new(u) + new(v),
\* new(u) - new(v), new(u) * new(v) and -new(u) are those of new of the sum,
\* difference, product and negation modulo p; the results are canonical, and
\* the field axioms hold on the stored words.
C2_FieldArithmetic ==
    (ctor = "new" /\ Less(u, P) /\ Less(v, P) /\ Less(z, P)) =>
        LET a == Elem(u)
            b == Elem(v)
            c == Elem(z)
        IN  /\ op = "add" =>
                   /\ ~out.panic
                   /\ out.val = new(RefAdd(u, v))
                   /\ Canonical(out.val)
                   /\ out.val = Add(b, a)
                   /\ Add(out.val, c) = Add(a, Add(b, c))
                   /\ Add(a, ZERO) = a
            /\ op = "sub" =>
                   /\ out.val = new(RefSub(u, v))
                   /\ Canonical(out.val)
            /\ op = "mul" =>
                   /\ out.val = new(RefMul(u, v))
                   /\ Canonical(out.val)
                   /\ out.val = Mul(b, a)
                   /\ Mul(out.val, c) = Mul(a, Mul(b, c))
                   /\ Mul(c, Add(a, b)) = Add(Mul(c, a), Mul(c, b))
                   /\ Mul(a, ONE) = a
            /\ op = "neg" =>
                   /\ out.val = new(RefNeg(u))
                   /\ Canonical(out.val)
                   /\ Add(a, out.val) = ZERO

\* Two elements made by new of p - 1 have been added: the sum wraps around p.
C2_Witness ==
    /\ op = "add"
    /\ ctor = "new"
    /\ u = MAX
    /\ v = MAX
    /\ value(out.val) = wrapping_sub(MAX, FromInt(1))

\* C3: for every v in [0, p), new(v).value() = v, with R2 = 2^128 mod p.
C3_NewValueRoundTrip ==
    /\ R2 = RefMul(RefMod(TimesR(FromInt(1))), RefMod(TimesR(FromInt(1))))
    /\ (op = "new" /\ Less(u, P)) => value(out.val) = u

\* new has run on p - 1, and the element it made is stored as another word.
C3_Witness ==
    /\ op = "new"
    /\ u = MAX
    /\ out.val # u
    /\ value(out.val) = MAX

\* C4: the addition chain of inverse raises to the exponent p - 2 =
\* 2^64 - 2^32 - 1, and for every nonzero a made by new,
\* a * a.inverse() = ONE and a.inverse().inverse() = a.
C4_InverseLaw ==
    /\ inverse_exponent = wrapping_sub(P, FromInt(2))
    /\ inverse_exponent = U64(65535, 65534, 65535, 65535)
    /\ (op = "inverse" /\ ctor = "new" /\ ~out.panic) =>
           /\ out.val = RefPow(Elem(u), wrapping_sub(P, FromInt(2)))
           /\ Mul(Elem(u), out.val) = ONE
           /\ ~InversePanics(out.val)
           /\ inverse(out.val) = Elem(u)

\* new(7), a generator of the multiplicative group, has been inverted.
C4_Witness ==
    /\ op = "inverse"
    /\ ctor = "new"
    /\ u = FromInt(7)
    /\ ~out.panic
    /\ out.val # Elem(u)

\* C5: for every element whose value() is 0, however it was made, inverse()
\* panics, and a / b panics for every a when b is such an element.
C5_InverseOfZeroPanics ==
    /\ (op = "inverse" /\ value(Elem(u)) = FromInt(0)) => out.panic
    /\ (op = "div" /\ value(Elem(v)) = FromInt(0)) => out.panic

\* The element from_raw_u64(p), whose value() is 0, has been inverted and
\* an element has been returned.
C5_ZeroInverted ==
    /\ op = "inverse"
    /\ ctor = "from_raw_u64"
    /\ u = P
    /\ value(Elem(u)) = FromInt(0)
    /\ ~out.panic
    /\ value(out.val) = FromInt(0)

(***************************************************************************)
(* The sponge: an instance is made by Tip5::new or by init, and absorb and *)
(* squeeze are called on it.                                               *)
(***************************************************************************)

MaxOps == 3

Domains == { "VariableLength", "FixedLength" }

\* Blocks of RATE elements: all ZERO, and the multiples of 1 and of 2.
Block(j) ==
    LET f(i) == new(FromInt(j * i))
    IN  <<f(1), f(2), f(3), f(4), f(5), f(6), f(7), f(8), f(9), f(10)>>

SampleBlocks == { Block(0), Block(1), Block(2) }

IdleField ==
    /\ u = FromInt(0)
    /\ v = FromInt(0)
    /\ z = FromInt(0)
    /\ ctor = "new"
    /\ overflow_checks = FALSE
    /\ op = "none"
    /\ out = Returned(NoValue)

\* The state a constructor leaves: which one was called, and the instance.
Made(name, domain, state) ==
    /\ sponge = [state |-> state]
    /\ sop = name
    /\ arg = domain
    /\ ret = Returned(NoValue)
    /\ pre = NoSponge
    /\ absorbed = <<>>
    /\ nops = 0
    /\ run = NoRun

Init ==
    /\ IdleField
    /\ \/ \E domain \in Domains : Made("new", domain, Tip5New(domain))
       \/ Made("init", NoValue, init)

\* sponge.absorb(input)
Absorb(input) ==
    /\ nops < MaxOps
    /\ sponge' = [state |-> absorb(sponge.state, input)]
    /\ sop' = "absorb"
    /\ arg' = input
    /\ ret' = Returned(NoValue)
    /\ pre' = sponge
    /\ absorbed' = <<>>
    /\ nops' = nops + 1
    /\ run' = NoRun
    /\ UNCHANGED fvars

\* sponge.squeeze()
Squeeze ==
    /\ nops < MaxOps
    /\ \E done \in { squeeze(sponge.state) } :
           /\ sponge' = [state |-> done.state]
           /\ ret' = Returned(done.ret)
    /\ sop' = "squeeze"
    /\ arg' = NoValue
    /\ pre' = sponge
    /\ absorbed' = <<>>
    /\ nops' = nops + 1
    /\ run' = IF sop = "squeeze"
              THEN [first |-> run.first, k |-> run.k + 1]
              ELSE [first |-> sponge.state, k |-> 1]
    /\ UNCHANGED fvars

Next ==
    \/ \E input \in SampleBlocks : Absorb(input)
    \/ Squeeze

Spec == Init /\ [][Next]_vars

(***************************************************************************)
(* pad_and_absorb_all, called on an instance as it was made.               *)
(***************************************************************************)

MaxInputLen == 21

\* Inputs: all ZERO; 1, 2, 0, 1, 2, 0, ...; 2, 1, 0, 2, 1, 0, ...
InputElement(j, i) == new(FromInt((j * i) % 3))

Input(j, n) == [i \in 1..n |-> InputElement(j, i)]

SampleInputs == { Input(j, n) : j \in 0..2, n \in 0..MaxInputLen }

\* sponge.pad_and_absorb_all(input)
PadAndAbsorbAll(input) ==
    /\ sop \in { "new", "init" }
    /\ \E done \in { pad_and_absorb_all(sponge.state, input) } :
           /\ sponge' = [state |-> done.state]
           /\ absorbed' = done.absorbed
           /\ ret' = IF done.panic THEN Panicked ELSE Returned(NoValue)
    /\ sop' = "pad_and_absorb_all"
    /\ arg' = input
    /\ pre' = sponge
    /\ nops' = nops + 1
    /\ run' = NoRun
    /\ UNCHANGED fvars

NextPad == \E input \in SampleInputs : PadAndAbsorbAll(input)

SpecPad == Init /\ [][NextPad]_vars

(***************************************************************************)
(* trace, called on an instance as it was made or after blocks were        *)
(* absorbed and traces were taken.                                         *)
(***************************************************************************)

\* sponge.trace()
Trace ==
    /\ nops < MaxOps
    /\ \E done \in { trace(sponge.state) } :
           /\ sponge' = [state |-> done.state]
           /\ ret' = Returned(done.ret)
    /\ sop' = "trace"
    /\ arg' = NoValue
    /\ pre' = sponge
    /\ absorbed' = <<>>
    /\ nops' = nops + 1
    /\ run' = NoRun
    /\ UNCHANGED fvars

NextTrace ==
    \/ \E input \in SampleBlocks : Absorb(input)
    \/ Trace

SpecTrace == Init /\ [][NextTrace]_vars

(***************************************************************************)
(* The associated functions of Tip5, which take no instance: the two       *)
(* constructors and the three hash functions.  What a function computes    *)
(* is bound once (\E over a singleton) and its parts are assigned.         *)
(***************************************************************************)

NumDigests == 6

\* Digests of five consecutive small elements.
SampleDigest(k) ==
    DigestNew(<<new(FromInt(k)), new(FromInt(k + 1)), new(FromInt(k + 2)),
                new(FromInt(k + 3)), new(FromInt(k + 4))>>)

SampleDigests == { SampleDigest(k) : k \in 0..(NumDigests - 1) }

InitHash ==
    /\ IdleField
    /\ IdleSponge

\* What a call of an associated function leaves: the sponge it made, as it
\* was made and as it is in the end, and what was returned.
Called(name, input, made, state, blocks, result) ==
    /\ sop = "none"
    /\ sop' = name
    /\ arg' = input
    /\ pre' = [state |-> made]
    /\ sponge' = [state |-> state]
    /\ absorbed' = blocks
    /\ ret' = result
    /\ UNCHANGED <<nops, run, fvars>>

\* Tip5::new(domain)
NewTip5(domain) ==
    \E made \in { Tip5New(domain) } :
        Called("new", domain, made, made, <<>>, Returned(NoValue))

\* Tip5::init()
SpongeInit ==
    \E made \in { init } : Called("init", NoValue, made, made, <<>>,
                                 Returned(NoValue))

\* Tip5::hash_10(&input)
Hash10(input) ==
    \E done \in { hash_10(input) } :
        Called("hash_10", input, done.made, done.state, done.absorbed,
               Returned(done.ret))

\* Tip5::hash_pair(left, right)
HashPair(left, right) ==
    \E done \in { hash_pair(left, right) } :
        Called("hash_pair", <<left, right>>, done.made, done.state,
               done.absorbed, Returned(done.ret))

\* Tip5::hash_varlen(&input)
HashVarlen(input) ==
    \E done \in { hash_varlen(input) } :
        Called("hash_varlen", input, done.made, done.state, done.absorbed,
               IF done.panic THEN Panicked ELSE Returned(done.ret))

NextHash ==
    \/ \E domain \in Domains : NewTip5(domain)
    \/ SpongeInit
    \/ \E left, right \in SampleDigests :
           Hash10(values(left) \o values(right))
    \/ \E left, right \in SampleDigests : HashPair(left, right)
    \/ \E input \in SampleInputs : HashVarlen(input)

SpecHash == InitHash /\ [][NextHash]_vars

(***************************************************************************)
(* Properties of the sponge and of the hash functions.                     *)
(***************************************************************************)

RECURSIVE Concat(_)
Concat(blocks) ==
    IF blocks = <<>> THEN <<>> ELSE Head(blocks) \o Concat(Tail(blocks))

\* The state whose rate part is the element 0 and whose capacity part is
\* the element 1, and the state of 16 elements 0.
IsFixedLengthState(state) ==
    /\ Len(state) = STATE_SIZE
    /\ \A i \in 1..RATE : state[i] = ZERO /\ value(state[i]) = FromInt(0)
    /\ \A i \in (RATE + 1)..STATE_SIZE :
           state[i] = ONE /\ value(state[i]) = FromInt(1)

IsZeroState(state) ==
    /\ Len(state) = STATE_SIZE
    /\ \A i \in 1..STATE_SIZE : state[i] = ZERO /\ value(state[i]) = FromInt(0)

\* n permutations of a state
RECURSIVE PermutationTimes(_, _)
PermutationTimes(state, n) ==
    IF n = 0
    THEN state
    ELSE LET next == permutation(state)
         IN  IF Len(next) = STATE_SIZE
             THEN PermutationTimes(next, n - 1)
             ELSE <<>>

\* C6 (under SpecPad): for an input of length n, the blocks handed to
\* absorb, in order, are the input, one ONE and k ZEROs, with k in
\* 0..RATE-1 the least number that makes the length a multiple of RATE;
\* absorb is called ceil((n + 1) / RATE) times, at least once, each time
\* with RATE elements.
C6_PaddingRule ==
    sop = "pad_and_absorb_all" =>
        LET n   == Len(arg)
            all == Concat(absorbed)
            k   == Len(all) - n - 1
        IN  /\ ~ret.panic
            /\ k \in 0..(RATE - 1)
            /\ Len(all) % RATE = 0
            /\ SubSeq(all, 1, n) = arg
            /\ all[n + 1] = ONE
            /\ value(all[n + 1]) = FromInt(1)
            /\ \A i \in (n + 2)..Len(all) : all[i] = ZERO
            /\ Len(absorbed) = (n + RATE) \div RATE
            /\ Len(absorbed) >= 1
            /\ \A j \in 1..Len(absorbed) : Len(absorbed[j]) = RATE

\* An input of 2 * RATE elements that starts with ONE has been padded: three
\* blocks were absorbed, the last one made of padding only.
C6_Witness ==
    /\ sop = "pad_and_absorb_all"
    /\ Len(arg) = 2 * RATE
    /\ arg[1] = ONE
    /\ Len(absorbed) = 3
    /\ absorbed[3][1] = ONE
    /\ sponge.state # pre.state

C8_AbsorbFrame ==
    sop = "absorb" =>
        /\ Len(arg) = RATE
        /\ sponge.state =
               permutation(arg \o SubSeq(pre.state, RATE + 1, STATE_SIZE))

\* A block has been absorbed into a state whose rate words were other than
\* the block and whose capacity was no longer as it was made.
C8_Witness ==
    /\ sop = "absorb"
    /\ nops >= 2
    /\ SubSeq(pre.state, 1, RATE) # arg
    /\ pre.state[STATE_SIZE] \notin { ZERO, ONE }

\* C9 (under SpecHash): hash_pair(a, b).values() is hash_10 of a.values()
\* followed by b.values(); both start from the FixedLength state, permute
\* once and return the first 5 words of the state.
C9_HashPairIsHash10 ==
    /\ sop = "hash_pair" =>
           LET input == values(arg[1]) \o values(arg[2])
           IN  /\ ~ret.panic
               /\ values(ret.val) = hash_10(input).ret
               /\ IsFixedLengthState(pre.state)
               /\ sponge.state =
                      permutation(input \o SubSeq(pre.state, RATE + 1, STATE_SIZE))
               /\ values(ret.val) = SubSeq(sponge.state, 1, LEN)
    /\ sop = "hash_10" =>
           /\ IsFixedLengthState(pre.state)
           /\ sponge.state =
                  permutation(arg \o SubSeq(pre.state, RATE + 1, STATE_SIZE))
           /\ ret.val = SubSeq(sponge.state, 1, LEN)

\* Two different digests have been hashed as a pair.
C9_Witness ==
    /\ sop = "hash_pair"
    /\ arg[1] # arg[2]
    /\ Len(values(ret.val)) = LEN

\* C10 (under Spec): squeeze returns the rate words of the state before the
\* call and permutes the state once; the k-th squeeze in a row returns the
\* rate words of the state at the first squeeze permuted k - 1 times, and
\* never the rate words of the state it leaves.
C10_SqueezeThenPermute ==
    sop = "squeeze" =>
        /\ ret.val = SubSeq(pre.state, 1, RATE)
        /\ sponge.state = permutation(pre.state)
        /\ run.k >= 1
        /\ ret.val = SubSeq(PermutationTimes(run.first, run.k - 1), 1, RATE)
        /\ ret.val # SubSeq(sponge.state, 1, RATE)

\* A second squeeze in a row has been made, the first one after an absorb.
C10_Witness ==
    /\ sop = "squeeze"
    /\ run.k = 2
    /\ nops = 3
    /\ ret.val # SubSeq(run.first, 1, RATE)


\* The state after rounds i..n-1 have been applied in order.
RECURSIVE RoundsBetween(_, _, _)
RoundsBetween(state, i, n) ==
    IF Len(state) = STATE_SIZE /\ i < n
    THEN RoundsBetween(round(state, i), i + 1, n)
    ELSE state

\* The state after rounds 0..n-1 have been applied in order.
RoundsUpTo(state, n) == RoundsBetween(state, 0, n)

\* C11 (under SpecTrace): trace leaves the sponge in the state that
\* permutation leaves it in, and returns 1 + NUM_ROUNDS = 8 snapshots: the
\* first is the state before the call, snapshot i is the state after rounds
\* 0..i-1 applied in order (each is the round after the snapshot before
\* it), and the last is the final state.
C11_TraceIsPermutation ==
    sop = "trace" =>
        /\ ~ret.panic
        /\ sponge.state = permutation(pre.state)
        /\ Len(ret.val) = 8
        /\ Len(ret.val) = 1 + NUM_ROUNDS
        /\ ret.val[1] = pre.state
        /\ \A i \in 1..7 :
               /\ ret.val[i + 1] = round(ret.val[i], i - 1)
               /\ ret.val[i + 1] = RoundsUpTo(pre.state, i)
        /\ ret.val[8] = sponge.state

\* A trace has been taken of a state that was neither as made nor zero in
\* its rate, and its snapshots are all different.
C11_Witness ==
    /\ sop = "trace"
    /\ nops >= 2
    /\ pre.state[1] # ZERO
    /\ pre.state[STATE_SIZE] \notin { ZERO, ONE }
    /\ Cardinality({ ret.val[i] : i \in 1..8 }) = 8


\* C12 (under SpecSbox): LOOKUP_TABLE has 256 entries and every byte value
\* 0..255 occurs in it exactly once; so the bytes split_and_lookup puts in
\* place of two bytes of a word are equal only where the two bytes are.
C12_LookupTableBijection ==
    /\ Len(LOOKUP_TABLE) = 256
    /\ \A b \in 0..255 : Cardinality({ i \in 1..256 : LOOKUP_TABLE[i] = b }) = 1
    /\ op = "split_and_lookup" =>
           \A i, j \in 1..BYTES :
               (out.val[i] = out.val[j]) <=> (raw_bytes(Elem(u))[i] = raw_bytes(Elem(u))[j])

\* A word of eight different bytes has been looked up, and came out as
\* eight different bytes.
C12_Witness ==
    /\ op = "split_and_lookup"
    /\ Cardinality({ raw_bytes(Elem(u))[i] : i \in 1..BYTES }) = BYTES
    /\ Cardinality({ out.val[i] : i \in 1..BYTES }) = BYTES


\* C13 (under SpecField): for elements a and b of any stored words, as
\* from_raw_u64 makes them, a + b, a - b and a * b return an element whose
\* value() is value(a) + value(b), value(a) - value(b) and
\* value(a) * value(b) modulo p.
C13_ArithmeticOnAnyWord ==
    ctor = "from_raw_u64" =>
        /\ op = "add" =>
               /\ ~out.panic
               /\ value(out.val) = RefAdd(value(Elem(u)), value(Elem(v)))
        /\ op = "sub" =>
               /\ ~out.panic
               /\ value(out.val) = RefSub(value(Elem(u)), value(Elem(v)))
        /\ op = "mul" =>
               /\ ~out.panic
               /\ value(out.val) = RefMul(value(Elem(u)), value(Elem(v)))

\* Two elements of stored word 2^64 - 1 have been added in a build without
\* overflow checks: the sum returned has another value than the sum of
\* their values.
C13_WrongSum ==
    /\ op = "add"
    /\ ctor = "from_raw_u64"
    /\ ~overflow_checks
    /\ u = U64(65535, 65535, 65535, 65535)
    /\ v = U64(65535, 65535, 65535, 65535)
    /\ ~out.panic
    /\ value(out.val) # RefAdd(value(Elem(u)), value(Elem(v)))


\* C14 (under SpecSbox): for every element whose stored word is below p,
\* split_and_lookup gives a stored word below p, and so do the first
\* NUM_SPLIT_AND_LOOKUP places of sbox_layer, which hold split_and_lookup of
\* the element that was there; LOOKUP_TABLE[0] is 0 and LOOKUP_TABLE[b] is
\* 255 for b = 255 only.
C14_LookupKeepsCanonical ==
    /\ LOOKUP_TABLE[0 + 1] = 0
    /\ \A b \in 0..255 : (LOOKUP_TABLE[b + 1] = 255) <=> (b = 255)
    /\ (op = "split_and_lookup" /\ Canonical(raw_u64(Elem(u)))) =>
           /\ ~out.panic
           /\ Canonical(raw_u64(out.val))
    /\ (op = "sbox_layer" /\ Canonical(raw_u64(Elem(u)))) =>
           /\ ~out.panic
           /\ \A i \in 1..NUM_SPLIT_AND_LOOKUP :
                  /\ out.val[i] = split_and_lookup(Elem(u))
                  /\ Canonical(raw_u64(out.val[i]))

\* The element of stored word p - 1 = 0xffffffff00000000, the largest one
\* below p, has been looked up: its bytes 255 and 0 stay as they are.
C14_Witness ==
    /\ op = "split_and_lookup"
    /\ ctor = "from_raw_u64"
    /\ u = MAX
    /\ Canonical(raw_u64(Elem(u)))
    /\ out.val = MAX

=============================================================================
